---- MODULE Spec2Model ----
(***************************************************************************)
(* pygame.ftfont: the Font facade over the freetype engine's font handle   *)
(* and the SysFont resolver (src/src_py/ftfont.py).                        *)
(*                                                                         *)
(* One Font instance is modelled.  Strings are records [kind, chars];      *)
(* kind tells a unicode string from a byte string, which is what the       *)
(* isinstance tests of the code look at.                                   *)
(***************************************************************************)
EXTENDS Integers, Sequences, FiniteSets, TLC

VARIABLES
    py2,                 \* the interpreter: TRUE when str is the byte string type
    font,                \* the Font instance (the engine handle's fields included)
    last                 \* the last call made: its arguments, result and delegation

vars == <<py2, font, last>>

----------------------------------------------------------------------------
(* Bounds of the model *)

MaxLen == 2     \* longest text handed to render
MaxSize == 2    \* largest size handed to the constructor
MaxRes == 3     \* largest engine default resolution

----------------------------------------------------------------------------
(* Values *)

None == [kind |-> "none", chars |-> <<>>]

\* a Python string literal such as '' or "": bytes on Python 2, unicode on 3
str_literal(chars) == [kind |-> IF py2 THEN "bytes" ELSE "unicode", chars |-> chars]

Chars == {0, 65}

RECURSIVE SeqsUpTo(_)
SeqsUpTo(n) ==
    IF n = 0 THEN {<<>>}
    ELSE LET shorter == SeqsUpTo(n - 1)
         IN shorter \cup {Append(s, c) : s \in {t \in shorter : Len(t) = n - 1}, c \in Chars}

Texts == {None} \cup {[kind |-> k, chars |-> s] : k \in {"unicode", "bytes"}, s \in SeqsUpTo(MaxLen)}

\* integers handed where a truth value is expected
Values == {0, 1, 2}
Sizes == -1..MaxSize
Resolutions == 0..MaxRes
Colors == {"white"}
Backgrounds == {"None", "black"}

\* bool(x) of an integer
bool(x) == x # 0

Raise(exc) == [kind |-> exc, val |-> "exception"]
Return(v) == [kind |-> "ok", val |-> v]

NoCall == [made |-> FALSE]

----------------------------------------------------------------------------
(* pygame.compat conversions used for the class constants *)

HexDigit(c) == IF c >= 48 /\ c <= 57 THEN c - 48 ELSE (c - 97) + 10

\* as_unicode(r"..."): decode the \xHH escapes of a raw string
RECURSIVE unicode_escape(_)
unicode_escape(r) ==
    IF r = <<>> THEN <<>>
    ELSE IF Len(r) >= 4 /\ r[1] = 92 /\ r[2] = 120
         THEN <<16 * HexDigit(r[3]) + HexDigit(r[4])>> \o unicode_escape(SubSeq(r, 5, Len(r)))
         ELSE <<r[1]>> \o unicode_escape(Tail(r))

as_unicode(r) == [kind |-> "unicode", chars |-> unicode_escape(r)]

\* as_bytes("..."): the code points of the literal as bytes (latin-1)
as_bytes(s) == [kind |-> "bytes", chars |-> s]

\* r"\x00" is the four characters \ x 0 0
unull == as_unicode(<<92, 120, 48, 48>>)

\* "\x00" is the one character U+0000
bnull == as_bytes(<<0>>)

\* needle in hay, for strings
Contains(needle, hay) ==
    \E i \in 1..(Len(hay) - Len(needle) + 1) :
        SubSeq(hay, i, i + Len(needle) - 1) = needle

----------------------------------------------------------------------------
(* Paths *)

DefaultFontName == "freesansbold.ttf"
Installed == {"DejaVuSans.ttf"}
Unencodable == {"bad\\udc80.ttf"}

\* a path is a string whose characters are abstracted into one token
Path(k, n) == [kind |-> k, chars |-> <<n>>]

Paths ==
    {None, Path("unicode", DefaultFontName), Path("bytes", DefaultFontName),
     Path("unicode", "DejaVuSans.ttf"), Path("unicode", "bad\\udc80.ttf"),
     Path("bytes", "missing.ttf")}

\* the engine's get_default_font()
get_default_font == str_literal(<<DefaultFontName>>)

\* encode_file_path(obj, etype): a unicode path becomes a byte string, or the
\* call raises etype when the path cannot be encoded; anything else is returned
\* as it is
encode_file_path(obj, etype) ==
    IF obj.kind = "unicode"
    THEN IF \E n \in Unencodable : obj.chars = <<n>>
         THEN [raised |-> TRUE, exc |-> etype, val |-> None]
         ELSE [raised |-> FALSE, exc |-> "", val |-> [kind |-> "bytes", chars |-> obj.chars]]
    ELSE [raised |-> FALSE, exc |-> "", val |-> obj]

default_font == encode_file_path(get_default_font, "UnicodeError").val

----------------------------------------------------------------------------
(* The engine's font handle, pygame._freetype.Font *)

\* what the engine may report for a face: sized ascender, descender, height
Metrics ==
    {[ascender |-> 3, descender |-> -1, height |-> 6],
     [ascender |-> 4, descender |-> 0, height |-> 5]}

\* what the engine answers while a handle is built: its default resolution,
\* and the antialiased flag and the metrics of the handle
EngineChoices ==
    [default_resolution : Resolutions, antialiased : BOOLEAN, metrics : Metrics]

\* what the engine does on one render call
EngineModes == {"ok", "raise"}

\* the instance; the path, size and resolution the handle was built with are
\* fixed from then on and read by no method of the facade: they are kept with
\* the constructor call, not here
Unbuilt ==
    [phase |-> "new",
     antialiased |-> FALSE, wide |-> FALSE, oblique |-> FALSE, underline |-> FALSE,
     strength |-> <<0, 1>>, kerning |-> FALSE, origin |-> FALSE, pad |-> FALSE,
     ucs4 |-> FALSE, underline_adjustment |-> 0,
     ascender |-> 0, descender |-> 0, height |-> 0]

Broken == [Unbuilt EXCEPT !.phase = "failed"]

\* whether the engine can open the font: None is its built-in font
EngineOpens(file) == file = None \/ \E n \in Installed : file.chars = <<n>>

\* _Font.__init__(file, size=, resolution=): builds the handle or raises
engine_init(file, size, resolution, eng) ==
    IF EngineOpens(file)
    THEN [raised |-> FALSE, exc |-> "",
          self |-> [Unbuilt EXCEPT !.phase = "ready",
                                   !.antialiased = eng.antialiased,
                                   !.ascender = eng.metrics.ascender,
                                   !.descender = eng.metrics.descender,
                                   !.height = eng.metrics.height]]
    ELSE [raised |-> TRUE, exc |-> "IOError", self |-> Broken]

\* _Font.render(text, fgcolor, bgcolor): the pair (surface, rect), or raises
engine_render(self, text, color, background, mode) ==
    IF mode = "raise"
    THEN [raised |-> TRUE, exc |-> "EngineError", pair |-> <<>>]
    ELSE [raised |-> FALSE, exc |-> "",
          pair |-> <<[type |-> "Surface", text |-> text, color |-> color,
                      background |-> background, antialiased |-> self.antialiased,
                      wide |-> self.wide, oblique |-> self.oblique,
                      underline |-> self.underline],
                     [type |-> "Rect", w |-> Len(text.chars),
                      h |-> self.ascender - self.descender + 1]>>]

get_sized_ascender(self) == self.ascender
get_sized_descender(self) == self.descender
get_sized_height(self) == self.height

----------------------------------------------------------------------------
(* Font.__init__ *)

\* variant: only negative sizes are raised to 1
clamp_size_negative(size) == IF size < 0 THEN 1 ELSE size

\* lines 30-31
clamp_size(size) == IF size <= 1 THEN 1 ELSE size

\* variant: an un-encodable path is taken for the default font
encode_fallback_default == default_font

\* the value bfile takes when the path cannot be encoded: ''
encode_fallback == str_literal(<<>>)

\* lines 32-38
encoded_file(file) ==
    IF file.kind = "unicode"
    THEN LET e == encode_file_path(file, "ValueError")
         IN IF e.raised THEN encode_fallback ELSE e.val
    ELSE file

\* lines 39-40
selected_file(file, bfile) ==
    IF bfile.kind = "bytes" /\ bfile = default_font THEN None ELSE file

\* int(get_default_resolution() * 0.6875); 0.6875 is 11/16, exact in binary
default_font_resolution(eng) == (eng.default_resolution * 11) \div 16

\* the attributes set after the engine built the handle
policy(self) ==
    [self EXCEPT !.strength = <<1, 12>>, !.kerning = FALSE, !.origin = TRUE,
                 !.pad = TRUE, !.ucs4 = TRUE, !.underline_adjustment = 1]

\* super(Font, self).__init__(file, size=size, resolution=resolution) and the
\* assignments after it
build(file, size, resolution, eng) ==
    LET e == engine_init(file, size, resolution, eng)
        call == [made |-> TRUE, file |-> file, size |-> size, resolution |-> resolution]
    IN IF e.raised
       THEN [self |-> Broken, ret |-> Raise(e.exc), call |-> call]
       ELSE [self |-> policy(e.self), ret |-> Return("Font"), call |-> call]

Font_init(file0, size0, eng) ==
    LET size == clamp_size(size0)
        bfile == encoded_file(file0)
        file == selected_file(file0, bfile)
    IN IF file = None
       THEN LET resolution == default_font_resolution(eng)
            IN IF resolution = 0
               THEN \* kwds is not defined: kwds['resolution'] = 1 raises NameError
                    [self |-> Broken, ret |-> Raise("NameError"), call |-> NoCall]
               ELSE build(file, size, resolution, eng)
       ELSE build(file, size, 0, eng)

----------------------------------------------------------------------------
(* Font.render *)

\* variant: None is handed on as it is
render_text_keep(text) == text

\* lines 59-60
render_text(text) == IF text = None THEN str_literal(<<>>) ELSE text

\* variant: only unicode text is tested
null_check_unicode_only(text) ==
    text.kind = "unicode" /\ Contains(unull.chars, text.chars)

\* lines 61-66: the two tests that raise ValueError
null_check(text) ==
    \/ text.kind = "unicode" /\ Contains(unull.chars, text.chars)
    \/ text.kind = "bytes" /\ Contains(bnull.chars, text.chars)

\* variant: the stored flag is left as it is
render_no_override(self, antialias) == self

\* line 68
render_override(self, antialias) == [self EXCEPT !.antialiased = bool(antialias)]

\* variant: the stored flag is not put back
render_no_finally(self, save_antialiased) == self

\* lines 72-73
render_finally(self, save_antialiased) == [self EXCEPT !.antialiased = save_antialiased]

render(self, text0, antialias, color, background, mode) ==
    LET text == render_text(text0)
    IN IF null_check(text)
       THEN [self |-> self, ret |-> Raise("ValueError"), call |-> NoCall]
       ELSE LET save_antialiased == self.antialiased
                during == render_override(self, antialias)
                out == engine_render(during, text, color, background, mode)
                after == render_finally(during, save_antialiased)
            IN [self |-> after,
                ret |-> IF out.raised THEN Raise(out.exc) ELSE Return(out.pair[1]),
                call |-> [made |-> TRUE, text |-> text, color |-> color,
                          background |-> background,
                          antialiased |-> during.antialiased]]

----------------------------------------------------------------------------
(* Style flags and metrics *)

\* variant: the value is compared with True instead of converted
set_bold_is_true(self, value) == [self EXCEPT !.wide = (value = 1)]

set_bold(self, value) == [self EXCEPT !.wide = bool(value)]
get_bold(self) == self.wide

set_italic(self, value) == [self EXCEPT !.oblique = bool(value)]
get_italic(self) == self.oblique

set_underline(self, value) == [self EXCEPT !.underline = bool(value)]
get_underline(self) == self.underline

get_ascent(self) == get_sized_ascender(self)
get_descent(self) == get_sized_descender(self)
\* variant: the engine's line height
get_height_linesize(self) == get_sized_height(self)

get_height(self) == get_sized_ascender(self) - get_sized_descender(self) + 1
get_linesize(self) == get_sized_height(self)

----------------------------------------------------------------------------
(* SysFont *)

Names == {"dejavusans", "nonexistent-font-xyz"}

\* the matcher: the path of an installed font, or None for the built-in font
match_font(name, bold, italic) ==
    IF name = "dejavusans" THEN Path("unicode", "DejaVuSans.ttf") ELSE None

\* lines 178-182: the constructor SysFont supplies
default_constructor(fontpath, size, bold, italic, eng) ==
    LET r == Font_init(fontpath, size, eng)
    IN IF r.ret.kind # "ok"
       THEN r
       ELSE [self |-> set_italic(set_bold(r.self, bold), italic),
             ret |-> r.ret, call |-> r.call]

\* a constructor the caller supplies: it is handed the arguments and builds
\* an object of its own
caller_constructor(fontpath, size, bold, italic) ==
    [self |-> [Unbuilt EXCEPT !.phase = "foreign"],
     ret |-> Return([type |-> "CallerFont", fontpath |-> fontpath, size |-> size,
                     bold |-> bold, italic |-> italic]),
     call |-> NoCall]

\* pygame.sysfont.SysFont(name, size, bold, italic, constructor)
sysfont_SysFont(name, size, bold, italic, constructor, eng) ==
    LET fontpath == match_font(name, bold, italic)
    IN IF constructor = "default"
       THEN default_constructor(fontpath, size, bold, italic, eng)
       ELSE caller_constructor(fontpath, size, bold, italic)

SysFont(name, size, bold, italic, constructor0, eng) ==
    LET constructor == IF constructor0 = "None" THEN "default" ELSE constructor0
    IN sysfont_SysFont(name, size, bold, italic, constructor, eng)

----------------------------------------------------------------------------
(* The state machine *)

Init ==
    /\ py2 \in BOOLEAN
    /\ font = Unbuilt
    /\ last = [op |-> "none"]

Env == UNCHANGED py2

NewFont ==
    /\ font.phase = "new"
    /\ \E file \in Paths, size \in Sizes, eng \in EngineChoices :
          LET r == Font_init(file, size, eng)
          IN /\ font' = r.self
             /\ last' = [op |-> "Font", file |-> file, size |-> size,
                         default_resolution |-> eng.default_resolution,
                         ret |-> r.ret, call |-> r.call]
    /\ Env

NewSysFont ==
    /\ font.phase = "new"
    /\ \E name \in Names, size \in Sizes, bold \in Values, italic \in Values,
          constructor \in {"None", "caller"}, eng \in EngineChoices :
          LET r == SysFont(name, size, bold, italic, constructor, eng)
          IN /\ font' = r.self
             /\ last' = [op |-> "SysFont", name |-> name, size |-> size,
                         bold |-> bold, italic |-> italic,
                         constructor |-> constructor,
                         default_resolution |-> eng.default_resolution,
                         ret |-> r.ret, call |-> r.call]
    /\ Env

Render ==
    /\ font.phase = "ready"
    /\ \E text \in Texts, antialias \in Values, color \in Colors,
          background \in Backgrounds, mode \in EngineModes :
          LET r == render(font, text, antialias, color, background, mode)
          IN /\ font' = r.self
             /\ last' = [op |-> "render", text |-> text, antialias |-> antialias,
                         color |-> color, background |-> background,
                         ret |-> r.ret, call |-> r.call]
    /\ Env

Setter(op, value) ==
    /\ font' = CASE op = "set_bold" -> set_bold(font, value)
                 [] op = "set_italic" -> set_italic(font, value)
                 [] op = "set_underline" -> set_underline(font, value)
    /\ last' = [op |-> op, value |-> value, ret |-> Return("None")]

SetBold ==
    /\ font.phase = "ready"
    /\ \E value \in Values : Setter("set_bold", value)
    /\ Env

SetItalic ==
    /\ font.phase = "ready"
    /\ \E value \in Values : Setter("set_italic", value)
    /\ Env

SetUnderline ==
    /\ font.phase = "ready"
    /\ \E value \in Values : Setter("set_underline", value)
    /\ Env

Getter(op, value) ==
    /\ last' = [op |-> op, ret |-> Return(value)]
    /\ UNCHANGED font

GetStyle ==
    /\ font.phase = "ready"
    /\ \/ Getter("get_bold", get_bold(font))
       \/ Getter("get_italic", get_italic(font))
       \/ Getter("get_underline", get_underline(font))
    /\ Env

GetMetric ==
    /\ font.phase = "ready"
    /\ \/ Getter("get_ascent", get_ascent(font))
       \/ Getter("get_descent", get_descent(font))
       \/ Getter("get_height", get_height(font))
       \/ Getter("get_linesize", get_linesize(font))
    /\ Env

Next ==
    \/ NewFont
    \/ NewSysFont
    \/ Render
    \/ SetBold
    \/ SetItalic
    \/ SetUnderline
    \/ GetStyle
    \/ GetMetric

Spec == Init /\ [][Next]_vars

----------------------------------------------------------------------------
(* Properties *)

HasNullCodePoint(text) ==
    /\ text.kind \in {"unicode", "bytes"}
    /\ \E i \in DOMAIN text.chars : text.chars[i] = 0

IsDefaultMarker(file) == file = None \/ file.chars = <<DefaultFontName>>

IsUnencodable(file) ==
    file.kind = "unicode" /\ \E n \in Unencodable : file.chars = <<n>>

IsInstalled(file) == \E n \in Installed : file.chars = <<n>>

\* max(1, floor(0.6875 * r))
DefaultOverride(r) ==
    LET f == (11 * r) \div 16 IN IF f < 1 THEN 1 ELSE f

\* C1: every render call, whether it is rejected by the null check, the
\* engine raises or it succeeds, leaves the stored antialiased flag as it was
\* before the call.
C1_RenderRestoresAntialiased ==
    [][last'.op = "render" => font'.antialiased = font.antialiased]_vars

\* a render call in which the engine raised while the flag was overridden
C1_Witness ==
    /\ last.op = "render"
    /\ last.ret.kind = "EngineError"
    /\ last.call.antialiased # font.antialiased

\* C2: render of a text holding a null code point (unicode or bytes) raises
\* ValueError, does not call the engine's render and changes nothing of the
\* instance.
C2_NullTextRejected ==
    [][(last'.op = "render" /\ HasNullCodePoint(last'.text))
         => /\ last'.ret = Raise("ValueError")
            /\ ~last'.call.made
            /\ font' = font]_vars

\* a byte string with a null byte in second place was rejected
C2_Witness ==
    /\ last.op = "render"
    /\ last.text = [kind |-> "bytes", chars |-> <<65, 0>>]
    /\ last.ret.kind = "ValueError"

\* C3: constructing with the default-font marker (None, or a path equal to
\* the default font) completes and hands the engine the resolution
\* max(1, floor(0.6875 * default resolution)), for every default resolution
\* >= 0; constructing with any other valid path hands it resolution 0.
C3_DefaultFontResolution ==
    last.op = "Font" =>
        IF IsDefaultMarker(last.file)
        THEN /\ last.ret.kind = "ok"
             /\ last.call.made
             /\ last.call.resolution = DefaultOverride(last.default_resolution)
        ELSE IsInstalled(last.file) =>
                /\ last.ret.kind = "ok"
                /\ last.call.made
                /\ last.call.resolution = 0

\* C4 as stated: a textual path that cannot be encoded does not raise the
\* encoding error, and the engine handle is built with the default-font marker
\* and the default-font resolution.
C4_UnencodableBecomesDefault ==
    (last.op = "Font" /\ IsUnencodable(last.file)) =>
        /\ last.ret.kind # "ValueError"
        /\ last.call.made
        /\ last.call.file = None
        /\ last.call.resolution = DefaultOverride(last.default_resolution)

\* C4 amended: a textual path that cannot be encoded does not raise the
\* encoding error; the engine handle is built with the original path and
\* resolution 0, as for any path that is not the default font.
C4_UnencodablePassedOn ==
    (last.op = "Font" /\ IsUnencodable(last.file)) =>
        /\ last.ret.kind # "ValueError"
        /\ last.call.made
        /\ last.call.file = last.file
        /\ last.call.resolution = 0

\* the constructor was called with an un-encodable path and reached the engine
C4_Witness ==
    /\ last.op = "Font"
    /\ IsUnencodable(last.file)
    /\ last.call.made
    /\ last.size = 0

\* C5: the size handed to the engine's constructor is 1 for every size <= 1
\* and the size itself for every size > 1.
C5_SizeClamped ==
    (last.op = "Font" /\ last.call.made) =>
        last.call.size = (IF last.size <= 1 THEN 1 ELSE last.size)

\* the constructor was called with size 0 and built the handle with size 1
C5_Witness ==
    /\ last.op = "Font"
    /\ last.size = 0
    /\ last.ret.kind = "ok"
    /\ last.call.size = 1

\* C6: each style setter sets its own flag to the boolean of its argument and
\* leaves the other two flags alone; the getter called next returns that
\* boolean; and a flag changes only by its own setter, so each getter returns
\* the value of the last call to its setter.
C6_StyleSetters ==
    [][/\ last'.op = "set_bold" =>
            /\ get_bold(font') = bool(last'.value)
            /\ get_italic(font') = get_italic(font)
            /\ get_underline(font') = get_underline(font)
       /\ last'.op = "set_italic" =>
            /\ get_italic(font') = bool(last'.value)
            /\ get_bold(font') = get_bold(font)
            /\ get_underline(font') = get_underline(font)
       /\ last'.op = "set_underline" =>
            /\ get_underline(font') = bool(last'.value)
            /\ get_bold(font') = get_bold(font)
            /\ get_italic(font') = get_italic(font)
       /\ (last.op = "set_bold" /\ last'.op = "get_bold") =>
            last'.ret.val = bool(last.value)
       /\ (last.op = "set_italic" /\ last'.op = "get_italic") =>
            last'.ret.val = bool(last.value)
       /\ (last.op = "set_underline" /\ last'.op = "get_underline") =>
            last'.ret.val = bool(last.value)
       /\ (font.phase = "ready" /\ last'.op # "set_bold") =>
            get_bold(font') = get_bold(font)
       /\ (font.phase = "ready" /\ last'.op # "set_italic") =>
            get_italic(font') = get_italic(font)
       /\ (font.phase = "ready" /\ last'.op # "set_underline") =>
            get_underline(font') = get_underline(font)
      ]_vars

\* set_bold(2) on an instance that is underlined and not italic
C6_Witness ==
    /\ last.op = "set_bold"
    /\ last.value = 2
    /\ get_bold(font)
    /\ ~get_italic(font)
    /\ get_underline(font)

\* C7: on every instance, render(None, ...) and render("", ...) hand the
\* engine the same arguments (the empty text), return the same result and
\* leave the same instance state, for every antialias, color, background and
\* engine outcome.
C7_NoneRendersAsEmpty ==
    font.phase = "ready" =>
        \A antialias \in Values, color \in Colors, background \in Backgrounds,
           mode \in EngineModes :
            LET none == render(font, None, antialias, color, background, mode)
                empty == render(font, str_literal(<<>>), antialias, color,
                                background, mode)
            IN /\ none = empty
               /\ none.call.made
               /\ none.call.text = str_literal(<<>>)

\* render(None, ...) was called and the engine rendered the empty text
C7_Witness ==
    /\ last.op = "render"
    /\ last.text = None
    /\ last.ret.kind = "ok"
    /\ last.call.text.kind # "none"
    /\ last.call.text.chars = <<>>

\* C8: in every state of a built instance, get_height() is
\* get_ascent() - get_descent() + 1, and that is what a get_height call
\* returns.
C8_HeightFromAscentDescent ==
    /\ font.phase = "ready" =>
          get_height(font) = get_ascent(font) - get_descent(font) + 1
    /\ last.op = "get_height" =>
          last.ret.val = get_ascent(font) - get_descent(font) + 1

\* get_height was called on a bold instance whose engine line height differs
C8_Witness ==
    /\ last.op = "get_height"
    /\ get_bold(font)
    /\ last.ret.val = 5
    /\ get_linesize(font) = 6

\* C9: SysFont without a constructor never fails, for any name, and returns
\* a Font built from the path the matcher resolved, with the bold and italic
\* flags the booleans of its arguments; with a constructor of the caller it
\* hands the arguments on unchanged and applies no setter.
C9_SysFontNeverFails ==
    last.op = "SysFont" =>
        IF last.constructor = "None"
        THEN /\ last.ret.kind = "ok"
             /\ font.phase = "ready"
             /\ last.call.made
             /\ last.call.file = match_font(last.name, last.bold, last.italic)
             /\ get_bold(font) = bool(last.bold)
             /\ get_italic(font) = bool(last.italic)
        ELSE /\ last.ret.kind = "ok"
             /\ last.ret.val.size = last.size
             /\ last.ret.val.bold = last.bold
             /\ last.ret.val.italic = last.italic
             /\ font.phase # "ready"

\* C10: a render call that passes the null check calls the engine with the
\* antialiased flag set to the boolean of the antialias argument, whatever
\* the stored flag was; the stored flag is as before once render returns; and
\* what is returned is the image of the engine's pair, rendered under the
\* overridden flag.
C10_OverrideDuringDelegation ==
    [][(last'.op = "render" /\ ~HasNullCodePoint(last'.text))
         => /\ last'.call.made
            /\ last'.call.antialiased = bool(last'.antialias)
            /\ font'.antialiased = font.antialiased
            /\ last'.ret.kind = "ok" =>
                  /\ last'.ret.val.type = "Surface"
                  /\ last'.ret.val.antialiased = bool(last'.antialias)]_vars

\* a render call succeeded with the engine seeing the opposite of the stored flag
C10_Witness ==
    /\ last.op = "render"
    /\ last.ret.kind = "ok"
    /\ last.call.antialiased # font.antialiased
    /\ last.antialias = 2

====
